---- MODULE Spec2Model ----
(***************************************************************************)
(* The "create commit" drawer of the desktop app: handleCommitCreation,    *)
(* createCommit, findHunkDiff and cancel, as a state machine.  Every await *)
(* of the component is a suspension point; the code between two awaits     *)
(* runs as one step.                                                       *)
(***************************************************************************)
EXTENDS Integers, Sequences, FiniteSets, TLC

\* ------------------------------------------------------------------ bounds
MaxSelection == 5   \* nodes (files + hunks + lines) of a change selection
SmallSelection == 2 \* the same, where the environment varies as well

\* ------------------------------------------------------------------ values
None == "none"      \* undefined

\* The worktree of the model: two changed files with two hunks each.
Paths == {1, 2}
HunkSlots == {1, 2}

\* The invocations of the commit action: a first one and a second one, which
\* retries after the first or overlaps it.
Attempts == {1, 2}

\* Unified-diff body of a hunk: changed lines separated by context lines
\* (chg ctx chg chg ctx ...); a line id is the position of a changed line.
LinePos(k) == k + k \div 2
ChangedLines(n) == {LinePos(k) : k \in 1..n}
\* The line ids a selection can hold: the first two changed lines of a hunk.
LineIds == ChangedLines(Cardinality(HunkSlots))

\* The stack the component was opened for, and the one createStack makes.
PropStack == "s1"
NewStack == "s2"
StackIds == {PropStack, NewStack}

Messages == {None, "", "fix"}

\* The hunk coordinates of the worktree: hunk k of a file.
Coord(k) == [oldStart |-> 10 * k - 9, oldLines |-> 4 + k,
             newStart |-> 10 * k - 7, newLines |-> 7 - k]
Coords == {Coord(k) : k \in HunkSlots}

\* pathBytes / previousPathBytes of a file: even paths are renames, and a
\* file that was not renamed has no previous path (the empty sequence).
PathBytes(p) == <<p>>
PreviousPathBytes(p) == IF p % 2 = 0 THEN <<p + Cardinality(Paths)>> ELSE <<>>

\* SelectedHunk: `full` carries the coordinates, `partial` also the lines.
HunkSelections ==
    {[type |-> "full", oldStart |-> c.oldStart, oldLines |-> c.oldLines,
      newStart |-> c.newStart, newLines |-> c.newLines, lines |-> {}] : c \in Coords}
    \cup
    {[type |-> "partial", oldStart |-> c.oldStart, oldLines |-> c.oldLines,
      newStart |-> c.newStart, newLines |-> c.newLines, lines |-> l] :
        c \in Coords, l \in SUBSET LineIds}

SeqsUpTo(S, n) == UNION {[1..k -> S] : k \in 0..n}

Injective(s) == \A x, y \in DOMAIN s : x # y => s[x] # s[y]

HunkCoords(h) == [oldStart |-> h.oldStart, oldLines |-> h.oldLines,
                  newStart |-> h.newStart, newLines |-> h.newLines]

\* The hunk selections of one file: at most one per hunk of the file.
HunkLists ==
    {s \in SeqsUpTo(HunkSelections, Cardinality(HunkSlots)) :
        \A x, y \in DOMAIN s : x # y => HunkCoords(s[x]) # HunkCoords(s[y])}

\* SelectedFile
FileSelections ==
    {[type |-> "full", path |-> p, pathBytes |-> PathBytes(p),
      previousPathBytes |-> PreviousPathBytes(p), hunks |-> <<>>] : p \in Paths}
    \cup
    {[type |-> "partial", path |-> p, pathBytes |-> PathBytes(p),
      previousPathBytes |-> PreviousPathBytes(p), hunks |-> hs] :
        p \in Paths, hs \in HunkLists}

\* ChangeSelectionService.list(): a path appears at most once.
\* The size of a selection: its files, hunk selections and selected lines.
RECURSIVE HunksSize(_)
HunksSize(hs) ==
    IF Len(hs) = 0 THEN 0 ELSE 1 + Cardinality(hs[1].lines) + HunksSize(Tail(hs))

FileSize(f) == 1 + HunksSize(f.hunks)

RECURSIVE SelectionSize(_)
SelectionSize(s) == IF Len(s) = 0 THEN 0 ELSE FileSize(s[1]) + SelectionSize(Tail(s))

FilesWithin(n) == {f \in FileSelections : FileSize(f) <= n}

ChangeSelections ==
    {s \in SeqsUpTo(FilesWithin(MaxSelection), Cardinality(Paths)) :
        /\ \A x, y \in DOMAIN s : x # y => s[x].path # s[y].path
        /\ SelectionSize(s) <= MaxSelection}

\* ------------------------------------------------------- backend answers
\* TreeChange of a path, as worktreeService.fetchChange returns it.
TreeChange(p) == [path |-> p, pathBytes |-> PathBytes(p)]

\* DiffHunk: the coordinates and the raw diff text of the hunk.  The text
\* carries its own @@ header and the changed lines it currently has.
\* A hunk the worktree no longer has as selected comes back with one of its
\* coordinates moved.
CoordNames == {"oldStart", "oldLines", "newStart", "newLines"}
StaleCoords == {[Coord(1) EXCEPT ![f] = @ + 1] : f \in CoordNames}

DiffHunks ==
    {[oldStart |-> c.oldStart, oldLines |-> c.oldLines,
      newStart |-> c.newStart, newLines |-> c.newLines,
      diff |-> [header |-> c, lines |-> ChangedLines(n)]] :
        c \in Coords, n \in 0..(Cardinality(LineIds) + 1)}

StaleHunks ==
    {[oldStart |-> c.oldStart, oldLines |-> c.oldLines,
      newStart |-> c.newStart, newLines |-> c.newLines,
      diff |-> [header |-> c, lines |-> LineIds]] : c \in StaleCoords}

\* The patches with a stale hunk: the stale hunk alone, or followed by the
\* hunk as it was selected.
StalePatches ==
    {<<s>> : s \in StaleHunks}
    \cup {<<s, h>> : s \in StaleHunks,
                     h \in {d \in DiffHunks : d.diff = [header |-> Coord(1),
                                                        lines |-> LineIds]}}

\* UnifiedDiff: a content patch with its hunks, or another kind (binary).
UnifiedDiffs ==
    {[type |-> "Binary", subject |-> <<>>]}
    \cup {[type |-> "Patch", subject |-> hs] :
            hs \in SeqsUpTo(DiffHunks, Cardinality(HunkSlots)) \cup StalePatches}

\* ------------------------------------------------------- pure functions
Falsy(x) == x = None \/ x = ""

\* JavaScript a || b
OrElse(a, b) == IF Falsy(a) THEN b ELSE a

SetMin(S) == CHOOSE x \in S : \A y \in S : x <= y

\* End of the maximal run of consecutive positions of S that starts at s.
RECURSIVE RunEnd(_, _)
RunEnd(S, s) == IF (s + 1) \in S THEN RunEnd(S, s + 1) ELSE s

RunHeader(header, s, len, purpose) ==
    [oldStart |-> header.oldStart + s - 1,
     oldLines |-> IF purpose = "commit" THEN len ELSE len + 1,
     newStart |-> header.newStart + s - 1,
     newLines |-> IF purpose = "commit" THEN len ELSE len + 1]

RECURSIVE RunHeaders(_, _, _)
RunHeaders(S, header, purpose) ==
    IF S = {} THEN <<>>
    ELSE LET s == SetMin(S)
             e == RunEnd(S, s)
         IN <<RunHeader(header, s, e - s + 1, purpose)>>
                \o RunHeaders(S \ (s..e), header, purpose)

\* The translator rejects a line id the diff text does not have.
TranslatorThrows(lineIds, diff) == ~(lineIds \subseteq diff.lines)

lineIdsToHunkHeaders(lineIds, diff, purpose) ==
    IF lineIds = {} THEN <<>>
    ELSE IF lineIds = diff.lines THEN <<diff.header>>
    ELSE RunHeaders(lineIds, diff.header, purpose)

\* Faulty variant: a hunk is matched on its old side only.
CoordsMatchOldSide(hunkDiff, hunk) ==
    /\ hunkDiff.oldStart = hunk.oldStart
    /\ hunkDiff.oldLines = hunk.oldLines

\* Array.prototype.find over the patch's hunks: the first hunk all four of
\* whose coordinates equal the selected hunk's (<<hunkDiff>>), or undefined
\* (<<>>).
CoordsMatch(hunkDiff, hunk) ==
    /\ hunkDiff.oldStart = hunk.oldStart
    /\ hunkDiff.oldLines = hunk.oldLines
    /\ hunkDiff.newStart = hunk.newStart
    /\ hunkDiff.newLines = hunk.newLines

FindHunk(hunks, hunk) ==
    IF \E k \in DOMAIN hunks : CoordsMatch(hunks[k], hunk)
    THEN <<hunks[SetMin({k \in DOMAIN hunks : CoordsMatch(hunks[k], hunk)})]>>
    ELSE <<>>

\* The tail of findHunkDiff, after both fetches returned data.
FindHunkDiffResult(file, hunk) ==
    IF file.type # "Patch" THEN <<>> ELSE FindHunk(file.subject, hunk)

\* ------------------------------------------------------------------ state
VARIABLES
    stackId,            \* prop: the stack the drawer was opened for, or None
    stackSel,           \* uiState.stack(id).selection.current, per stack
    selectable,         \* the branch / commit selections the stack view offers
    topBranch,          \* name of the first branch stackService.branches lists
    draftBranchName,    \* uiState.global.draftBranchName
    projectStackId,     \* projectState.stackId
    commitTitle,        \* projectState.commitTitle
    commitDescription,  \* projectState.commitDescription
    drawerPage,         \* projectState.drawerPage
    changeSelection,    \* changeSelection.list().current
    att,                \* the invocations of handleCommitCreation
    notes               \* what showToast / showError displayed, in order

vars == <<stackId, stackSel, selectable, topBranch, draftBranchName, projectStackId,
          commitTitle, commitDescription, drawerPage, changeSelection, att, notes>>

NoSelection == [branchName |-> None, commitId |-> None]
StackSelections ==
    {NoSelection, [branchName |-> "b1", commitId |-> "c1"],
     [branchName |-> "b2", commitId |-> None]}

\* ------------------------------------------------------ derived values
selection == IF Falsy(stackId) THEN NoSelection ELSE stackSel[stackId]
selectedCommitId == selection.commitId
topBranchName == IF Falsy(stackId) THEN None ELSE topBranch
selectedBranchName == OrElse(selection.branchName, topBranchName)
canCommit ==
    /\ ~Falsy(OrElse(OrElse(selectedBranchName, draftBranchName), topBranchName))
    /\ Len(changeSelection) > 0

\* commitCreation.current.isLoading || newStackResult.current.isLoading
loading == \E a \in DOMAIN att : att[a].pc \in {"createStack", "createCommit"}

\* ------------------------------------------------------ one invocation
\* The locals of one run of handleCommitCreation / createCommit.  calls is
\* what the run asked of the backend and the translator, in order; input,
\* seen and replies record what the run was given: the message, the stack
\* selection and draft branch name at its start, and the backend's answers.
IdleAttempt ==
    [pc |-> "idle", message |-> None, finalStackId |-> None,
     finalBranchName |-> None, items |-> <<>>, i |-> 1, j |-> 1,
     hunkHeaders |-> <<>>, worktreeChanges |-> <<>>, treeChange |-> <<>>,
     calls |-> <<>>, thrown |-> None,
     input |-> None, seen |-> [selection |-> NoSelection, draft |-> None],
     replies |-> <<>>]

Call(op, at, arg) == [op |-> op, at |-> at, arg |-> arg]

Throw(r, cause) == [r EXCEPT !.thrown = cause]

ChangeEntry(item, hunkHeaders) ==
    [pathBytes |-> item.pathBytes,
     previousPathBytes |-> item.previousPathBytes,
     hunkHeaders |-> hunkHeaders]

\* The request of createCommitInStack.
CommitRequest(r, parentId) ==
    [stackId |-> r.finalStackId, parentId |-> parentId, message |-> r.message,
     stackBranchName |-> r.finalBranchName, worktreeChanges |-> r.worktreeChanges]

\* Faulty variant: the entry of a `full` file loses the previous path of a rename.
PushFullFileDropsRename(r, item) ==
    [r EXCEPT !.worktreeChanges =
                  Append(@, [pathBytes |-> item.pathBytes, previousPathBytes |-> <<>>,
                             hunkHeaders |-> <<>>]),
              !.i = @ + 1, !.j = 1, !.hunkHeaders = <<>>]

\* Lines 97-104: a `full` file.
PushFullFile(r, item) ==
    [r EXCEPT !.worktreeChanges = Append(@, ChangeEntry(item, <<>>)),
              !.i = @ + 1, !.j = 1, !.hunkHeaders = <<>>]

\* Faulty variant: the commit is submitted file by file, inside the loop.
PushPartialFileCommits(r, item) ==
    [r EXCEPT !.worktreeChanges = Append(@, ChangeEntry(item, r.hunkHeaders)),
              !.i = @ + 1, !.j = 1, !.hunkHeaders = <<>>,
              !.calls = Append(@, Call("createCommit", <<0, 0>>,
                                       [stackId |-> r.finalStackId, parentId |-> None,
                                        message |-> r.message,
                                        stackBranchName |-> r.finalBranchName,
                                        worktreeChanges |->
                                            <<ChangeEntry(item, r.hunkHeaders)>>]))]

\* Faulty variant: the entry of a `partial` file is put first (unshift for push).
PushPartialFileFirst(r, item) ==
    [r EXCEPT !.worktreeChanges = <<ChangeEntry(item, r.hunkHeaders)>> \o @,
              !.i = @ + 1, !.j = 1, !.hunkHeaders = <<>>]

\* Lines 124-129: a `partial` file whose hunks were all visited.
PushPartialFile(r, item) ==
    [r EXCEPT !.worktreeChanges = Append(@, ChangeEntry(item, r.hunkHeaders)),
              !.i = @ + 1, !.j = 1, !.hunkHeaders = <<>>]

\* Faulty variant: the header of a `full` hunk has its old and new sides swapped.
PushFullHunkSwapsSides(r, hunk) ==
    [r EXCEPT !.hunkHeaders =
                  Append(@, [oldStart |-> hunk.newStart, oldLines |-> hunk.newLines,
                             newStart |-> hunk.oldStart, newLines |-> hunk.oldLines]),
              !.j = @ + 1]

\* Lines 109-112: a `full` hunk.
PushFullHunk(r, hunk) ==
    [r EXCEPT !.hunkHeaders = Append(@, HunkCoords(hunk)), !.j = @ + 1]

\* Lines 114-115 and 49: a `partial` hunk suspends at fetchChange.
AwaitFetchChange(r, item) ==
    [r EXCEPT !.pc = "fetchChange",
              !.calls = Append(@, Call("fetchChange", <<r.i, r.j>>, item.path))]

\* Line 133: after the last item, the one createCommitInStack call.
AwaitCreateCommit(r, parentId) ==
    [r EXCEPT !.pc = "createCommit",
              !.calls = Append(@, Call("createCommit", <<0, 0>>,
                                       CommitRequest(r, parentId)))]

\* The loop over selectedChanges.current from position (i, j) up to the next
\* await.
RECURSIVE RunLoop(_, _)
RunLoop(r, parentId) ==
    IF r.i > Len(r.items) THEN AwaitCreateCommit(r, parentId)
    ELSE LET item == r.items[r.i] IN
      IF item.type = "full" THEN RunLoop(PushFullFile(r, item), parentId)
      ELSE IF r.j > Len(item.hunks) THEN RunLoop(PushPartialFile(r, item), parentId)
      ELSE IF item.hunks[r.j].type = "full"
           THEN RunLoop(PushFullHunk(r, item.hunks[r.j]), parentId)
           ELSE AwaitFetchChange(r, item)

\* Faulty variant: worktreeChanges is one list for all runs (declared outside
\* createCommit), so a run starts with what an earlier run left in it.
AfterTargetSharedChanges(r, items, parentId) ==
    IF Falsy(r.finalStackId) THEN Throw(r, "No stack selected!")
    ELSE IF Falsy(r.finalBranchName) THEN Throw(r, "No branch selected!")
    ELSE RunLoop([r EXCEPT !.items = items, !.i = 1, !.j = 1, !.hunkHeaders = <<>>,
                           !.worktreeChanges =
                               IF \E b \in DOMAIN att : att[b].worktreeChanges # <<>>
                               THEN att[CHOOSE b \in DOMAIN att :
                                            att[b].worktreeChanges # <<>>].worktreeChanges
                               ELSE <<>>], parentId)

\* Faulty variant: the branch guard of lines 90-92 is missing.
AfterTargetNoBranchGuard(r, items, parentId) ==
    IF Falsy(r.finalStackId) THEN Throw(r, "No stack selected!")
    ELSE RunLoop([r EXCEPT !.items = items, !.i = 1, !.j = 1,
                           !.hunkHeaders = <<>>, !.worktreeChanges = <<>>], parentId)

\* createCommit from the target guards on: lines 86-96.
AfterTarget(r, items, parentId) ==
    IF Falsy(r.finalStackId) THEN Throw(r, "No stack selected!")
    ELSE IF Falsy(r.finalBranchName) THEN Throw(r, "No branch selected!")
    ELSE RunLoop([r EXCEPT !.items = items, !.i = 1, !.j = 1,
                           !.hunkHeaders = <<>>, !.worktreeChanges = <<>>], parentId)

\* Faulty variant: the top branch is preferred to the selected branch.
InitialTargetTopFirst(r) ==
    [r EXCEPT !.finalStackId = stackId,
              !.finalBranchName = OrElse(topBranchName, selection.branchName)]

\* Lines 72-73.
InitialTarget(r) ==
    [r EXCEPT !.finalStackId = stackId,
              !.finalBranchName = OrElse(selectedBranchName, topBranchName)]

\* createCommit up to its first await.
BeginCreateCommit(r, message) ==
    LET r0 == InitialTarget([r EXCEPT !.message = message])
    IN IF Falsy(stackId)
       THEN [r0 EXCEPT !.pc = "createStack",
                       !.calls = Append(@, Call("createStack", <<0, 0>>, draftBranchName))]
       ELSE AfterTarget(r0, changeSelection, selectedCommitId)

\* Faulty variant: only an undefined message is rejected (`=== undefined` for `!`).
BeginHandleCommitCreationEmptyPasses(r, message) ==
    IF message = None THEN [r EXCEPT !.pc = "rejected"]
    ELSE BeginCreateCommit(r, message)

\* handleCommitCreation up to the first await: lines 170-177.
BeginHandleCommitCreation(r, message) ==
    IF Falsy(message) THEN [r EXCEPT !.pc = "rejected"]
    ELSE BeginCreateCommit(r, message)

FirstHeadName(stack) == IF Len(stack.heads) = 0 THEN None ELSE stack.heads[1].name

\* Lines 80 and 82, then the guards and the loop.
AfterCreateStack(r, stack, items, parentId) ==
    AfterTarget([r EXCEPT !.finalStackId = stack.id,
                          !.finalBranchName = FirstHeadName(stack)], items, parentId)

\* Faulty variant: a missing change is not checked for, and the diff is
\* fetched for the path instead.
AfterFetchChangeIgnoresMissing(r, data) ==
    [r EXCEPT !.pc = "fetchDiff", !.treeChange = data,
              !.calls = Append(@, Call("fetchDiff", <<r.i, r.j>>,
                                       IF data = <<>> THEN TreeChange(r.items[r.i].path)
                                       ELSE data[1]))]

\* Lines 50-53: the answer of fetchChange.
AfterFetchChange(r, data) ==
    IF data = <<>> THEN Throw(r, "Failed to fetch change")
    ELSE [r EXCEPT !.pc = "fetchDiff", !.treeChange = data,
                   !.calls = Append(@, Call("fetchDiff", <<r.i, r.j>>, data[1]))]

\* Faulty variant: the translator is asked for the headers of another purpose.
PushTranslatedForDiscard(r, hunk, hunkDiff, parentId) ==
    LET r1 == [r EXCEPT !.calls = Append(@, Call("translate", <<r.i, r.j>>,
                   [lineIds |-> hunk.lines, diff |-> hunkDiff.diff, purpose |-> "discard"]))]
    IN IF TranslatorThrows(hunk.lines, hunkDiff.diff)
       THEN Throw(r1, "Invalid line selection")
       ELSE RunLoop([r1 EXCEPT !.hunkHeaders =
                                   @ \o lineIdsToHunkHeaders(hunk.lines, hunkDiff.diff, "discard"),
                               !.j = @ + 1], parentId)

\* Lines 119-121 for the hunk findHunkDiff found.
PushTranslated(r, hunk, hunkDiff, parentId) ==
    LET r1 == [r EXCEPT !.calls = Append(@, Call("translate", <<r.i, r.j>>,
                   [lineIds |-> hunk.lines, diff |-> hunkDiff.diff, purpose |-> "commit"]))]
    IN IF TranslatorThrows(hunk.lines, hunkDiff.diff)
       THEN Throw(r1, "Invalid line selection")
       ELSE RunLoop([r1 EXCEPT !.hunkHeaders =
                                   @ \o lineIdsToHunkHeaders(hunk.lines, hunkDiff.diff, "commit"),
                               !.j = @ + 1], parentId)

\* Faulty variant: a hunk that is not found is skipped (`continue` for `throw`).
AfterFetchDiffSkipsMissing(r, data, parentId) ==
    IF data = <<>> THEN Throw(r, "Failed to fetch diff")
    ELSE LET hunk == r.items[r.i].hunks[r.j]
             found == FindHunkDiffResult(data[1], hunk)
         IN IF found = <<>>
            THEN RunLoop([r EXCEPT !.j = @ + 1], parentId)
            ELSE PushTranslated(r, hunk, found[1], parentId)

\* Lines 54-68 and 116-118: the answer of fetchDiff.
AfterFetchDiff(r, data, parentId) ==
    IF data = <<>> THEN Throw(r, "Failed to fetch diff")
    ELSE LET hunk == r.items[r.i].hunks[r.j]
             found == FindHunkDiffResult(data[1], hunk)
         IN IF found = <<>>
            THEN Throw(r, "Hunk not found while commiting")
            ELSE PushTranslated(r, hunk, found[1], parentId)

Note(kind, title, body) == [kind |-> kind, title |-> title, body |-> body]

\* What handleCommitCreation shows for a run that stopped: the toast of
\* lines 171-173, or the catch of lines 178-180.
Shown(r) ==
    IF r.pc = "rejected" THEN <<Note("toast", "Commit message is required", None)>>
    ELSE IF r.thrown # None THEN <<Note("error", "Failed to commit", r.thrown)>>
    ELSE <<>>

\* One step of run a that ends in the locals r.
Settle(a, r) ==
    /\ att' = [att EXCEPT ![a] =
                 IF r.thrown # None /\ r.pc # "rejected" THEN [r EXCEPT !.pc = "failed"] ELSE r]
    /\ notes' = notes \o Shown(r)

\* Faulty variant: the warning lists the first rejected path only.
RejectedPathsFirstOnly(pairs) == [k \in {1} |-> pairs[1][2]]

\* The paths of the (reason, path) pairs, as line 162 lists them.
RejectedPaths(pairs) == [k \in DOMAIN pairs |-> pairs[k][2]]

\* Lines 158-164.
RejectedWarning(response) ==
    IF Len(response.pathsToRejectedChanges) > 0
    THEN <<Note("error", "Some changes were not committed",
                RejectedPaths(response.pathsToRejectedChanges))>>
    ELSE <<>>

\* Faulty variant: the selection is set through stackState, which exists only for the
\* stack of the stackId prop.
SelectNewCommitOfProp(r, response) ==
    IF Falsy(stackId) THEN stackSel
    ELSE [stackSel EXCEPT ![stackId] =
            [branchName |-> r.finalBranchName, commitId |-> response.newCommit]]

\* Line 153.
SelectNewCommit(r, response) ==
    [stackSel EXCEPT ![r.finalStackId] =
        [branchName |-> r.finalBranchName, commitId |-> response.newCommit]]

\* Faulty variant: a run whose drawer was closed meanwhile drops its side effects.
CommitSucceededUnlessClosed(a, r, response) ==
    /\ commitTitle' = IF drawerPage = None THEN commitTitle ELSE ""
    /\ commitDescription' = IF drawerPage = None THEN commitDescription ELSE ""
    /\ drawerPage' = None
    /\ stackSel' = IF drawerPage = None THEN stackSel ELSE SelectNewCommit(r, response)
    /\ changeSelection' = <<>>
    /\ notes' = notes \o RejectedWarning(response)
    /\ att' = [att EXCEPT ![a] = [r EXCEPT !.pc = "done"]]

\* Lines 142-164: createCommitInStack resolved.
CommitSucceeded(a, r, response) ==
    /\ commitTitle' = ""
    /\ commitDescription' = ""
    /\ drawerPage' = None
    /\ stackSel' = SelectNewCommit(r, response)
    /\ changeSelection' = <<>>
    /\ notes' = notes \o RejectedWarning(response)
    /\ att' = [att EXCEPT ![a] = [r EXCEPT !.pc = "done"]]

\* CommitMessageEditor runs its action only while the drawer shows it and
\* the action is neither disabled nor loading.
ActionEnabled == drawerPage # None /\ canCommit /\ ~loading

\* ------------------------------------------------- what a run was given
Reply(op, at, outcome, data) == [op |-> op, at |-> at, outcome |-> outcome, data |-> data]

Given(r, reply) == [r EXCEPT !.replies = Append(@, reply)]

LastCall(r) == r.calls[Len(r.calls)]
LastReply(r) == r.replies[Len(r.replies)]

\* The hunks of a patch that have the coordinates of the selected hunk.
Matching(hunks, hunk) == {k \in DOMAIN hunks : HunkCoords(hunks[k]) = HunkCoords(hunk)}

\* The hunks of a patch that differ from the selected hunk in one coordinate.
Near(hunks, hunk) ==
    {k \in DOMAIN hunks :
        Cardinality({f \in CoordNames : hunks[k][f] # hunk[f]}) = 1}

\* The answer of fetchDiff for the selected hunk, classified: with the diff
\* text of the first hunk that has its coordinates, or else of the first
\* that has all but one.
DiffReply(at, data, hunk) ==
    IF data = <<>> THEN Reply("fetchDiff", at, "no-diff", <<>>)
    ELSE IF data[1].type # "Patch" THEN Reply("fetchDiff", at, "not-patch", <<>>)
    ELSE IF Matching(data[1].subject, hunk) = {}
         THEN Reply("fetchDiff", at, "no-match",
                    IF Near(data[1].subject, hunk) = {} THEN <<>>
                    ELSE <<data[1].subject[SetMin(Near(data[1].subject, hunk))].diff>>)
    ELSE LET diff == data[1].subject[SetMin(Matching(data[1].subject, hunk))].diff
         IN Reply("fetchDiff", at,
                  IF TranslatorThrows(hunk.lines, diff) THEN "translator-fails" ELSE "match",
                  <<diff>>)

\* ---------------------------------------------------------------- actions
\* handleCommitCreation up to the first await of createCommit.
HandleCommitCreation(a, message) ==
    /\ ActionEnabled
    /\ att[a].pc = "idle"
    /\ \A b \in DOMAIN att : b < a => att[b].pc # "idle"
    /\ Settle(a, BeginHandleCommitCreation(
                    [att[a] EXCEPT !.input = message,
                                   !.seen = [selection |-> selection,
                                             draft |-> draftBranchName]], message))
    /\ UNCHANGED <<stackId, stackSel, selectable, topBranch, draftBranchName,
                   projectStackId, commitTitle, commitDescription, drawerPage,
                   changeSelection>>

\* What createNewStack resolves to: a stack with its id and heads.
NewStacks ==
    {[id |-> id, heads |-> hs] :
        id \in {NewStack, ""},
        hs \in {<<>>, <<[name |-> "b-new"]>>, <<[name |-> "b-new"], [name |-> "b-old"]>>}}

\* createNewStack rejects: createCommit throws at line 76.
CreateStackFails(a) ==
    /\ att[a].pc = "createStack"
    /\ Settle(a, Throw(Given(att[a], Reply("createStack", <<0, 0>>, "failed", <<>>)),
                       "createStack failed"))
    /\ UNCHANGED <<stackId, stackSel, selectable, topBranch, draftBranchName,
                   projectStackId, commitTitle, commitDescription, drawerPage,
                   changeSelection>>

\* createNewStack resolves: lines 80-83, then the guards and the loop.
CreateStackReturns(a, stack) ==
    /\ att[a].pc = "createStack"
    /\ projectStackId' = stack.id
    /\ draftBranchName' = None
    /\ Settle(a, AfterCreateStack(
                    Given(att[a], Reply("createStack", <<0, 0>>, "ok", stack)),
                    stack, changeSelection, selectedCommitId))
    /\ UNCHANGED <<stackId, stackSel, selectable, topBranch, commitTitle,
                   commitDescription, drawerPage, changeSelection>>

\* worktreeService.fetchChange returns: data undefined (<<>>) or the change
\* of the path asked for.
FetchChangeReturns(a, data) ==
    /\ att[a].pc = "fetchChange"
    /\ data # <<>> => data[1].path = LastCall(att[a]).arg
    /\ Settle(a, AfterFetchChange(
                    Given(att[a], Reply("fetchChange", <<att[a].i, att[a].j>>,
                                        IF data = <<>> THEN "no-change" ELSE "ok", data)),
                    data))
    /\ UNCHANGED <<stackId, stackSel, selectable, topBranch, draftBranchName,
                   projectStackId, commitTitle, commitDescription, drawerPage,
                   changeSelection>>

\* diffService.fetchDiff returns: data undefined (<<>>) or the unified diff.
FetchDiffReturns(a, data) ==
    /\ att[a].pc = "fetchDiff"
    /\ Settle(a, AfterFetchDiff(
                    Given(att[a], DiffReply(<<att[a].i, att[a].j>>, data,
                                            att[a].items[att[a].i].hunks[att[a].j])),
                    data, selectedCommitId))
    /\ UNCHANGED <<stackId, stackSel, selectable, topBranch, draftBranchName,
                   projectStackId, commitTitle, commitDescription, drawerPage,
                   changeSelection>>

\* Faulty variant: the change selection is cleared in a `finally`, so also
\* when createCommitInStack rejects.
CreateCommitFailsAndClears(a) ==
    /\ att[a].pc = "createCommit"
    /\ Settle(a, Throw(Given(att[a], Reply("createCommit", <<0, 0>>, "failed", <<>>)),
                       "createCommit failed"))
    /\ changeSelection' = <<>>
    /\ UNCHANGED <<stackId, stackSel, selectable, topBranch, draftBranchName,
                   projectStackId, commitTitle, commitDescription, drawerPage>>

\* createCommitInStack rejects: createCommit throws at line 133.
CreateCommitFails(a) ==
    /\ att[a].pc = "createCommit"
    /\ Settle(a, Throw(Given(att[a], Reply("createCommit", <<0, 0>>, "failed", <<>>)),
                       "createCommit failed"))
    /\ UNCHANGED <<stackId, stackSel, selectable, topBranch, draftBranchName,
                   projectStackId, commitTitle, commitDescription, drawerPage,
                   changeSelection>>

\* What the backend may answer to a request: a new commit id and the
\* rejected (reason, path) pairs, each for a path of the request.
CommitResponses(req) ==
    {[newCommit |-> "c-new", pathsToRejectedChanges |-> ps] :
        ps \in {s \in SeqsUpTo({<<"locked", p>> : p \in Paths}, Cardinality(Paths)) :
                  /\ Injective(s)
                  /\ \A k \in DOMAIN s :
                        \E e \in DOMAIN req.worktreeChanges :
                            req.worktreeChanges[e].pathBytes = PathBytes(s[k][2])}}

\* createCommitInStack resolves.
CreateCommitReturns(a, response) ==
    /\ att[a].pc = "createCommit"
    /\ response \in CommitResponses(LastCall(att[a]).arg)
    /\ CommitSucceeded(a, Given(att[a], Reply("createCommit", <<0, 0>>, "ok", response)),
                       response)
    /\ UNCHANGED <<stackId, selectable, topBranch, draftBranchName, projectStackId>>

\* Drawer.onClose: closes the drawer page and drops the change selection.
DrawerOnClose ==
    /\ drawerPage' = None
    /\ changeSelection' = <<>>

\* Faulty variant: cancel closes the drawer page itself and does not go
\* through the drawer.
CancelClosesPageOnly ==
    /\ drawerPage # None
    /\ drawerPage' = None
    /\ UNCHANGED <<stackId, stackSel, selectable, topBranch, draftBranchName,
                   projectStackId, commitTitle, commitDescription, changeSelection,
                   att, notes>>

\* cancel
Cancel ==
    /\ drawerPage # None
    /\ DrawerOnClose
    /\ UNCHANGED <<stackId, stackSel, selectable, topBranch, draftBranchName,
                   projectStackId, commitTitle, commitDescription, att, notes>>

\* The user selects another branch / commit of the stack in the stack view.
UserSelects(sel) ==
    /\ ~Falsy(stackId)
    /\ sel \in selectable
    /\ stackSel[stackId] # sel
    /\ stackSel' = [stackSel EXCEPT ![stackId] = sel]
    /\ UNCHANGED <<stackId, selectable, topBranch, draftBranchName, projectStackId,
                   commitTitle, commitDescription, drawerPage, changeSelection, att,
                   notes>>

AllCommitResponses ==
    {[newCommit |-> "c-new", pathsToRejectedChanges |-> ps] :
        ps \in SeqsUpTo({<<"locked", p>> : p \in Paths}, Cardinality(Paths))}

Next ==
    \/ \E a \in DOMAIN att, m \in Messages : HandleCommitCreation(a, m)
    \/ \E a \in DOMAIN att : CreateStackFails(a)
    \/ \E a \in DOMAIN att, stack \in NewStacks : CreateStackReturns(a, stack)
    \/ \E a \in DOMAIN att, data \in {<<>>} \cup {<<TreeChange(p)>> : p \in Paths} :
            FetchChangeReturns(a, data)
    \/ \E a \in DOMAIN att, data \in {<<>>} \cup {<<d>> : d \in UnifiedDiffs} :
            FetchDiffReturns(a, data)
    \/ \E a \in DOMAIN att : CreateCommitFails(a)
    \/ \E a \in DOMAIN att, response \in AllCommitResponses :
            CreateCommitReturns(a, response)
    \/ Cancel
    \/ \E sel \in StackSelections : UserSelects(sel)

\* The plain environment: an existing stack with a top branch, nothing
\* selected in it, and a saved draft message.
PlainEnvironment ==
    /\ stackId = PropStack
    /\ stackSel[PropStack] = NoSelection
    /\ topBranch = "top"
    /\ draftBranchName = None

\* The selections of lines of one hunk of the first file.
LineSelections ==
    {s \in [{1} -> FileSelections] :
        /\ s[1].type = "partial" /\ s[1].path = 1
        /\ Len(s[1].hunks) = 1
        /\ s[1].hunks[1].type = "partial"
        /\ HunkCoords(s[1].hunks[1]) = Coord(1)}

\* The selection, the environment and the number of invocations are not all
\* large at once: a second invocation comes with a small selection or with a
\* selection of lines of one hunk.
Init ==
    /\ stackId \in {None, PropStack}
    /\ stackSel \in [StackIds -> StackSelections]
    /\ stackSel[NewStack] = NoSelection
    /\ Falsy(stackId) => stackSel[PropStack] = NoSelection
    /\ selectable \in {{}, StackSelections}
    /\ topBranch \in {None, "top"}
    /\ Falsy(stackId) => topBranch = None
    /\ draftBranchName \in {None, "draft"}
    /\ projectStackId = stackId
    /\ commitTitle = "t"
    /\ commitDescription = "d"
    /\ drawerPage = "new-commit"
    /\ changeSelection \in ChangeSelections
    /\ \E A \in {{1}, Attempts} : att = [a \in A |-> IdleAttempt]
    /\ notes = <<>>
    /\ \/ PlainEnvironment /\ selectable = {} /\ DOMAIN att = {1}
       \/ /\ SelectionSize(changeSelection) <= SmallSelection
          /\ selectable = StackSelections /\ DOMAIN att = {1}
       \/ /\ \/ SelectionSize(changeSelection) <= SmallSelection
             \/ changeSelection \in LineSelections
          /\ PlainEnvironment /\ selectable = {}

Spec == Init /\ [][Next]_vars

\* =================================================================== claims
CallsOf(r, op) == {k \in DOMAIN r.calls : r.calls[k].op = op}

\* The request of the createCommit call of a run that issued one.
RequestOf(r) == r.calls[SetMin(CallsOf(r, "createCommit"))].arg

\* The diff text fetchDiff gave for the hunk at position (i, j).
DiffGiven(r, i, j) ==
    r.replies[SetMin({k \in DOMAIN r.replies :
                        r.replies[k].op = "fetchDiff" /\ r.replies[k].at = <<i, j>>})].data[1]

\* The headers hunk j of item i stands for: its coordinates when `full`,
\* what the translator makes of its lines and the given diff when `partial`.
HeadersOfHunk(r, i, j) ==
    LET hunk == r.items[i].hunks[j]
    IN IF hunk.type = "full"
       THEN <<[oldStart |-> hunk.oldStart, oldLines |-> hunk.oldLines,
               newStart |-> hunk.newStart, newLines |-> hunk.newLines]>>
       ELSE lineIdsToHunkHeaders(hunk.lines, DiffGiven(r, i, j), "commit")

\* The headers of the first j hunks of item i, in hunk order.
RECURSIVE HeadersUpTo(_, _, _)
HeadersUpTo(r, i, j) ==
    IF j = 0 THEN <<>> ELSE HeadersUpTo(r, i, j - 1) \o HeadersOfHunk(r, i, j)

LookupFailures == {"no-change", "no-diff", "not-patch", "no-match", "translator-fails"}

CauseOf(outcome) ==
    CASE outcome = "no-change" -> "Failed to fetch change"
      [] outcome = "no-diff" -> "Failed to fetch diff"
      [] outcome = "not-patch" -> "Hunk not found while commiting"
      [] outcome = "no-match" -> "Hunk not found while commiting"
      [] outcome = "translator-fails" -> "Invalid line selection"

ShownIn(ns, cause) ==
    \E n \in DOMAIN ns :
        ns[n].title = "Failed to commit" /\ ns[n].kind = "error" /\ ns[n].body = cause

\* C1: a run that was given a failing or not-found answer for a partially
\* selected hunk (no change, no diff, not a patch, no hunk with the
\* coordinates) or whose translator failed has ended failed, has issued no
\* createCommit call, and 'Failed to commit' with the cause is shown.
C1_LookupFailureAborts ==
    \A a \in DOMAIN att : \A k \in DOMAIN att[a].replies :
        att[a].replies[k].outcome \in LookupFailures =>
            /\ att[a].pc = "failed"
            /\ CallsOf(att[a], "createCommit") = {}
            /\ ShownIn(notes, CauseOf(att[a].replies[k].outcome))

\* A run whose second file's hunk vanished after the first file's hunk was
\* looked up and translated.
C1_Witness ==
    \E a \in DOMAIN att :
        /\ att[a].pc = "failed"
        /\ Len(att[a].replies) >= 3
        /\ LastReply(att[a]).outcome = "no-match"
        /\ LastReply(att[a]).at = <<2, 1>>

\* C2: for every `full` file of the selection a run walks, the run asks no
\* fetchChange / fetchDiff for its path, and its entry, once emitted and in
\* the commit request, has the file's path, its previous path and no hunk
\* headers.
WholeFileEntry(item) ==
    [pathBytes |-> PathBytes(item.path),
     previousPathBytes |-> PreviousPathBytes(item.path),
     hunkHeaders |-> <<>>]

C2_FullFileWholeEntry ==
    \A a \in DOMAIN att : \A k \in DOMAIN att[a].items :
        att[a].items[k].type = "full" =>
            /\ \A c \in DOMAIN att[a].calls :
                  /\ att[a].calls[c].op = "fetchChange"
                        => att[a].calls[c].arg # att[a].items[k].path
                  /\ att[a].calls[c].op = "fetchDiff"
                        => att[a].calls[c].arg.path # att[a].items[k].path
            /\ k <= Len(att[a].worktreeChanges)
                  => att[a].worktreeChanges[k] = WholeFileEntry(att[a].items[k])
            /\ CallsOf(att[a], "createCommit") # {}
                  => /\ k <= Len(RequestOf(att[a]).worktreeChanges)
                     /\ RequestOf(att[a]).worktreeChanges[k] = WholeFileEntry(att[a].items[k])

\* A commit request whose second entry is a renamed `full` file that follows
\* a partially selected file.
C2_Witness ==
    \E a \in DOMAIN att :
        /\ CallsOf(att[a], "createCommit") # {}
        /\ Len(att[a].items) = 2
        /\ att[a].items[1].type = "partial"
        /\ att[a].items[2].type = "full"
        /\ att[a].items[2].previousPathBytes # <<>>

\* C3: for every `full` hunk under a `partial` file, the run performs no
\* fetchChange, fetchDiff or translator call for that hunk, and the file's
\* entry holds, right after the headers of the hunks before it, one header
\* with the hunk's four coordinates, and no header beyond those its hunks
\* stand for.
C3_FullHunkHeader ==
    \A a \in DOMAIN att : \A i \in DOMAIN att[a].items :
        \A j \in DOMAIN att[a].items[i].hunks :
            (att[a].items[i].type = "partial" /\ att[a].items[i].hunks[j].type = "full") =>
                /\ \A c \in DOMAIN att[a].calls :
                      att[a].calls[c].op \in {"fetchChange", "fetchDiff", "translate"}
                          => att[a].calls[c].at # <<i, j>>
                /\ i <= Len(att[a].worktreeChanges) =>
                      LET headers == att[a].worktreeChanges[i].hunkHeaders
                          before == Len(HeadersUpTo(att[a], i, j - 1))
                          hunk == att[a].items[i].hunks[j]
                      IN /\ Len(headers) =
                                Len(HeadersUpTo(att[a], i, Len(att[a].items[i].hunks)))
                         /\ headers[before + 1].oldStart = hunk.oldStart
                         /\ headers[before + 1].oldLines = hunk.oldLines
                         /\ headers[before + 1].newStart = hunk.newStart
                         /\ headers[before + 1].newLines = hunk.newLines

\* An emitted entry whose `full` hunk follows a `partial` hunk that the
\* translator turned into two headers.
C3_Witness ==
    \E a \in DOMAIN att : \E i \in DOMAIN att[a].items :
        /\ i <= Len(att[a].worktreeChanges)
        /\ att[a].items[i].type = "partial"
        /\ Len(att[a].items[i].hunks) = 2
        /\ att[a].items[i].hunks[1].type = "partial"
        /\ att[a].items[i].hunks[2].type = "full"
        /\ Len(att[a].worktreeChanges[i].hunkHeaders) = 3

\* C4: the change list of a commit request has one entry per file of the
\* selection the run walked, in the selection's order; the entry of a
\* `partial` file holds the headers of its hunks in hunk order, those of one
\* hunk together and in the translator's order.
ExpectedEntry(r, k) ==
    [pathBytes |-> r.items[k].pathBytes,
     previousPathBytes |-> r.items[k].previousPathBytes,
     hunkHeaders |-> IF r.items[k].type = "full" THEN <<>>
                     ELSE HeadersUpTo(r, k, Len(r.items[k].hunks))]

C4_EntriesInSelectionOrder ==
    \A a \in DOMAIN att :
        CallsOf(att[a], "createCommit") # {} =>
            RequestOf(att[a]).worktreeChanges =
                [k \in 1..Len(att[a].items) |-> ExpectedEntry(att[a], k)]

\* A commit request of two partially selected files, the first with a hunk
\* the translator turned into two headers.
C4_Witness ==
    \E a \in DOMAIN att :
        /\ CallsOf(att[a], "createCommit") # {}
        /\ Len(att[a].items) = 2
        /\ att[a].items[1].type = "partial"
        /\ att[a].items[2].type = "partial"
        /\ Len(RequestOf(att[a]).worktreeChanges[1].hunkHeaders) = 2
        /\ Len(att[a].items[1].hunks) = 1

\* Run a is given an answer of the backend in this step.
Answered(a, op, outcome) ==
    /\ Len(att'[a].replies) = Len(att[a].replies) + 1
    /\ LastReply(att'[a]).op = op
    /\ LastReply(att'[a]).outcome = outcome

\* C5: in the step in which the commit call of a run succeeds, the run ends
\* done with the new commit id and the request's branch name as the selection
\* of the request's stack, the change selection empty, the saved commit title
\* and description empty, and the drawer page closed.
C5_SuccessEffects ==
    [][\A a \in DOMAIN att :
          (att[a].pc = "createCommit" /\ Answered(a, "createCommit", "ok")) =>
              /\ att'[a].pc = "done"
              /\ stackSel'[RequestOf(att[a]).stackId] =
                    [branchName |-> RequestOf(att[a]).stackBranchName,
                     commitId |-> LastReply(att'[a]).data.newCommit]
              /\ changeSelection' = <<>>
              /\ commitTitle' = ""
              /\ commitDescription' = ""
              /\ drawerPage' = None]_vars

\* A run that made a new stack is done and its commit is the new stack's
\* selection.
C5_Witness ==
    \E a \in DOMAIN att :
        /\ att[a].pc = "done"
        /\ Falsy(stackId)
        /\ stackSel[NewStack] = [branchName |-> "b-new", commitId |-> "c-new"]
        /\ changeSelection = <<>> /\ commitTitle = "" /\ drawerPage = None

\* C6: when the commit call answers with rejected paths the run still ends
\* done with the selection cleared and the drawer closed, and what is shown
\* grows by exactly one warning that lists the rejected paths in order; with
\* no rejected path nothing is shown.
PathsOfPairs(pairs) == [k \in DOMAIN pairs |-> pairs[k][2]]

C6_RejectedPathsWarn ==
    [][\A a \in DOMAIN att :
          (att[a].pc = "createCommit" /\ Answered(a, "createCommit", "ok")) =>
              LET rejected == LastReply(att'[a]).data.pathsToRejectedChanges
              IN /\ att'[a].pc = "done"
                 /\ att'[a].thrown = None
                 /\ stackSel'[RequestOf(att[a]).stackId].commitId =
                        LastReply(att'[a]).data.newCommit
                 /\ changeSelection' = <<>> /\ commitTitle' = "" /\ drawerPage' = None
                 /\ IF Len(rejected) > 0
                    THEN /\ Len(notes') = Len(notes) + 1
                         /\ \A n \in DOMAIN notes : notes'[n] = notes[n]
                         /\ notes'[Len(notes')].title = "Some changes were not committed"
                         /\ notes'[Len(notes')].body = PathsOfPairs(rejected)
                    ELSE notes' = notes]_vars

\* A run is done whose commit rejected both files, and the warning lists
\* them.
C6_Witness ==
    \E a \in DOMAIN att :
        /\ att[a].pc = "done"
        /\ Len(LastReply(att[a]).data.pathsToRejectedChanges) = 2
        /\ Len(notes) > 0
        /\ notes[Len(notes)].title = "Some changes were not committed"
        /\ Len(notes[Len(notes)].body) = 2

\* C7: an invocation with a missing or empty message ends rejected at once:
\* it issues no backend call, then or later, changes no UI state, and shows
\* the one notice 'Commit message is required'.
C7_MissingMessageRejected ==
    [][\A a \in DOMAIN att :
          /\ (att[a].pc = "idle" /\ att'[a].pc # "idle" /\ Falsy(att'[a].input)) =>
                /\ att'[a].pc = "rejected"
                /\ att'[a].calls = <<>>
                /\ Len(notes') = Len(notes) + 1
                /\ \A n \in DOMAIN notes : notes'[n] = notes[n]
                /\ notes'[Len(notes')].title = "Commit message is required"
                /\ notes'[Len(notes')].kind = "toast"
                /\ UNCHANGED <<changeSelection, stackSel, commitTitle, commitDescription,
                               drawerPage, draftBranchName, projectStackId>>
          /\ att[a].pc = "rejected" => att'[a] = att[a]]_vars

\* An invocation with the empty message was rejected.
C7_Witness ==
    \E a \in DOMAIN att :
        /\ att[a].pc = "rejected"
        /\ att[a].input = ""
        /\ notes[Len(notes)].title = "Commit message is required"

\* The answer createStack gave to a run.
StackGiven(r) ==
    r.replies[SetMin({k \in DOMAIN r.replies : r.replies[k].op = "createStack"})].data

\* C8: a run for an explicit stack id never calls createStack, and its commit
\* request names that stack and the branch name of the stack selection the
\* run started with, or the top branch when that has none; a run without a
\* stack id calls createStack once, with the draft branch name it started
\* with, and its commit request names the new stack's id and the name of its
\* first head.
C8_TargetResolution ==
    \A a \in DOMAIN att :
        att[a].pc \notin {"idle", "rejected"} =>
            IF ~Falsy(stackId)
            THEN /\ CallsOf(att[a], "createStack") = {}
                 /\ CallsOf(att[a], "createCommit") # {} =>
                       /\ RequestOf(att[a]).stackId = stackId
                       /\ RequestOf(att[a]).stackBranchName =
                             IF ~Falsy(att[a].seen.selection.branchName)
                             THEN att[a].seen.selection.branchName
                             ELSE topBranch
            ELSE /\ Cardinality(CallsOf(att[a], "createStack")) = 1
                 /\ \A c \in CallsOf(att[a], "createStack") :
                       att[a].calls[c].arg = att[a].seen.draft
                 /\ CallsOf(att[a], "createCommit") # {} =>
                       /\ RequestOf(att[a]).stackId = StackGiven(att[a]).id
                       /\ RequestOf(att[a]).stackBranchName = StackGiven(att[a]).heads[1].name

\* A commit request for a new stack that came with two heads.
C8_Witness ==
    \E a \in DOMAIN att :
        /\ CallsOf(att[a], "createCommit") # {}
        /\ Falsy(stackId)
        /\ Len(StackGiven(att[a]).heads) = 2
        /\ att[a].seen.draft = "draft"

\* Target resolution of a run has yielded no stack id or no branch name.
ResolvedNone(r) ==
    /\ r.pc \notin {"idle", "rejected"}
    /\ IF ~Falsy(stackId)
       THEN Falsy(r.seen.selection.branchName) /\ Falsy(topBranch)
       ELSE \E k \in DOMAIN r.replies :
               /\ r.replies[k].op = "createStack"
               /\ r.replies[k].outcome = "ok"
               /\ \/ Falsy(r.replies[k].data.id)
                  \/ Len(r.replies[k].data.heads) = 0
                  \/ Falsy(r.replies[k].data.heads[1].name)

NoStackResolved(r) ==
    /\ Falsy(stackId)
    /\ \E k \in DOMAIN r.replies :
          r.replies[k].op = "createStack" /\ r.replies[k].outcome = "ok"
            /\ Falsy(r.replies[k].data.id)

\* C9: once target resolution of a run has yielded no stack id or no branch
\* name, the run has failed with 'No stack selected!' / 'No branch selected!'
\* shown under 'Failed to commit', has issued no fetchChange, fetchDiff or
\* createCommit call, and the step in which it failed left the change
\* selection as it was.
C9_NoTargetFails ==
    [][\A a \in DOMAIN att :
          ResolvedNone(att'[a]) =>
              /\ att'[a].pc = "failed"
              /\ att'[a].thrown = IF NoStackResolved(att'[a]) THEN "No stack selected!"
                                  ELSE "No branch selected!"
              /\ ShownIn(notes', att'[a].thrown)
              /\ \A c \in DOMAIN att'[a].calls :
                    att'[a].calls[c].op \notin {"fetchChange", "fetchDiff", "createCommit"}
              /\ ~ResolvedNone(att[a]) => changeSelection' = changeSelection]_vars

\* A run failed for a new stack that came without branches, with the change
\* selection still populated.
C9_Witness ==
    \E a \in DOMAIN att :
        /\ att[a].pc = "failed"
        /\ att[a].thrown = "No branch selected!"
        /\ Falsy(stackId)
        /\ StackGiven(att[a]).heads = <<>>
        /\ Len(changeSelection) > 0

InFlight == {"createStack", "fetchChange", "fetchDiff", "createCommit"}

\* C10: closing the drawer while a run is suspended leaves the run as it is,
\* and with the drawer closed every answer that lets a run go on still makes
\* it issue its next backend call, and the answer to its commit call still
\* makes its commit the selection of the request's stack and clears the
\* change selection.
C10_NoCancellation ==
    [][\A a \in DOMAIN att :
          /\ (att[a].pc \in InFlight /\ drawerPage # None /\ drawerPage' = None
                /\ att'[a].pc # "done") => att'[a] = att[a]
          /\ (att[a].pc \in InFlight /\ drawerPage = None) =>
                /\ (Answered(a, "createStack", "ok") /\ ~ResolvedNone(att'[a])) =>
                      /\ att'[a].pc \in {"fetchChange", "createCommit"}
                      /\ Len(att'[a].calls) = Len(att[a].calls) + 1
                /\ Answered(a, "fetchChange", "ok") =>
                      /\ att'[a].pc = "fetchDiff"
                      /\ Len(att'[a].calls) = Len(att[a].calls) + 1
                      /\ LastCall(att'[a]).op = "fetchDiff"
                /\ Answered(a, "fetchDiff", "match") =>
                      /\ att'[a].pc \in {"fetchChange", "createCommit"}
                      /\ Len(att'[a].calls) = Len(att[a].calls) + 2
                      /\ LastCall(att'[a]).op \in {"fetchChange", "createCommit"}
                /\ Answered(a, "createCommit", "ok") =>
                      /\ att'[a].pc = "done"
                      /\ stackSel'[RequestOf(att[a]).stackId] =
                            [branchName |-> RequestOf(att[a]).stackBranchName,
                             commitId |-> LastReply(att'[a]).data.newCommit]
                      /\ changeSelection' = <<>>]_vars

\* A run is done that went on after the drawer was closed while it waited
\* for createStack: it started with a populated selection and committed the
\* selection the close had emptied.
C10_Witness ==
    \E a \in DOMAIN att :
        /\ att[a].pc = "done"
        /\ Falsy(stackId)
        /\ RequestOf(att[a]).worktreeChanges = <<>>
        /\ stackSel[NewStack].commitId = "c-new"

BackendOps == {"createStack", "fetchChange", "fetchDiff", "createCommit"}

\* The backend calls of a run, in the order it issued them.
BackendCalls(r) == SelectSeq(r.calls, LAMBDA c : c.op \in BackendOps)

\* The partially selected hunks of the selection a run walks.
PartialHunks(r) ==
    {p \in (1..Len(r.items)) \X HunkSlots :
        /\ r.items[p[1]].type = "partial"
        /\ p[2] \in DOMAIN r.items[p[1]].hunks
        /\ r.items[p[1]].hunks[p[2]].type = "partial"}

\* fetchChange and fetchDiff were both answered for the hunk at `at`.
Fetched(r, at) ==
    /\ \E k \in DOMAIN r.replies : r.replies[k].op = "fetchChange" /\ r.replies[k].at = at
    /\ \E k \in DOMAIN r.replies : r.replies[k].op = "fetchDiff" /\ r.replies[k].at = at

\* The run has walked its whole selection: its target was resolved and every
\* partially selected hunk was looked up and translated.
Flattened(r) ==
    /\ r.pc \notin {"idle", "rejected", "createStack"}
    /\ ~ResolvedNone(r)
    /\ \A k \in DOMAIN r.replies : r.replies[k].op = "createStack" => r.replies[k].outcome = "ok"
    /\ \A at \in PartialHunks(r) :
          \E k \in DOMAIN r.replies :
              /\ r.replies[k].op = "fetchDiff" /\ r.replies[k].at = at
              /\ r.replies[k].outcome = "match"

\* C11: the backend calls of a run are answered one by one in the order they
\* were issued, with at most the last one outstanding; a createStack call is
\* the first call, a createCommit call is the last one and there is at most
\* one; when it is issued, fetchChange and fetchDiff were answered for every
\* partially selected hunk; and a run that walked its whole selection has
\* issued exactly one.
C11_SequentialCalls ==
    \A a \in DOMAIN att :
        LET calls == BackendCalls(att[a])
            replies == att[a].replies
        IN /\ Len(calls) - Len(replies) \in {0, 1}
           /\ \A k \in DOMAIN replies :
                 replies[k].op = calls[k].op /\ replies[k].at = calls[k].at
           /\ att[a].pc \in InFlight <=> Len(calls) = Len(replies) + 1
           /\ \A k \in DOMAIN calls :
                 /\ calls[k].op = "createStack" => k = 1
                 /\ calls[k].op = "createCommit" =>
                       /\ k = Len(calls)
                       /\ \A at \in PartialHunks(att[a]) : Fetched(att[a], at)
           /\ Cardinality(CallsOf(att[a], "createCommit")) <= 1
           /\ Flattened(att[a]) => Cardinality(CallsOf(att[a], "createCommit")) = 1

\* A run that made a new stack, looked a hunk up and issued its commit call.
C11_Witness ==
    \E a \in DOMAIN att :
        /\ CallsOf(att[a], "createStack") # {}
        /\ CallsOf(att[a], "fetchDiff") # {}
        /\ CallsOf(att[a], "createCommit") # {}
        /\ Len(BackendCalls(att[a])) = 4

\* The answers a run was given for its lookups, in order.
LookupReplies(r) == SelectSeq(r.replies, LAMBDA x : x.op \in {"fetchChange", "fetchDiff"})

\* C12: two runs that walked the same selection and were given the same
\* answers to fetchChange and fetchDiff (the same change, and the same diff
\* text for the hunk with the selected coordinates) send the same change
\* list: the same entries in the same order with the same hunk headers.
C12_FlatteningIdempotent ==
    \A a, b \in DOMAIN att :
        (/\ a # b
         /\ CallsOf(att[a], "createCommit") # {}
         /\ CallsOf(att[b], "createCommit") # {}
         /\ att[a].items = att[b].items
         /\ LookupReplies(att[a]) = LookupReplies(att[b]))
            => RequestOf(att[a]).worktreeChanges = RequestOf(att[b]).worktreeChanges

\* Two runs sent a commit request for the same selection of one line of a
\* hunk, after the same answers, and the line made a header.
C12_Witness ==
    \E a, b \in DOMAIN att :
        /\ a # b
        /\ CallsOf(att[a], "createCommit") # {}
        /\ CallsOf(att[b], "createCommit") # {}
        /\ att[a].items = att[b].items
        /\ LookupReplies(att[a]) = LookupReplies(att[b])
        /\ Len(att[a].items) = 1
        /\ att[a].items[1].type = "partial"
        /\ Len(att[a].items[1].hunks) = 1
        /\ Cardinality(att[a].items[1].hunks[1].lines) = 1
        /\ Len(RequestOf(att[b]).worktreeChanges[1].hunkHeaders) = 1

\* The hunk headers a run holds for item i: those of its entry once emitted,
\* the ones collected so far while the run is at the item.
HeadersHeld(r, i) ==
    IF i <= Len(r.worktreeChanges) THEN r.worktreeChanges[i].hunkHeaders
    ELSE IF r.i = i THEN r.hunkHeaders ELSE <<>>

\* The translator calls a run made for the hunk at `at`.
TranslationsAt(r, at) == {k \in CallsOf(r, "translate") : r.calls[k].at = at}

\* C13: for every partially selected hunk that was looked up and translated,
\* the run called the translator once, with the hunk's selected line ids, the
\* diff text of the hunk the lookup found and the purpose `commit`, and the
\* headers held for the file have, right after those of the hunks before it,
\* exactly what the translator returns for these: no header when that is the
\* empty sequence.
C13_TranslatedHeaders ==
    \A a \in DOMAIN att : \A at \in PartialHunks(att[a]) :
        (\E k \in DOMAIN att[a].replies :
            /\ att[a].replies[k].op = "fetchDiff" /\ att[a].replies[k].at = at
            /\ att[a].replies[k].outcome = "match") =>
            LET r == att[a]
                hunk == r.items[at[1]].hunks[at[2]]
                diff == DiffGiven(r, at[1], at[2])
                translated == lineIdsToHunkHeaders(hunk.lines, diff, "commit")
                before == Len(HeadersUpTo(r, at[1], at[2] - 1))
                held == HeadersHeld(r, at[1])
            IN /\ Cardinality(TranslationsAt(r, at)) = 1
               /\ \A k \in TranslationsAt(r, at) :
                     r.calls[k].arg = [lineIds |-> hunk.lines, diff |-> diff,
                                       purpose |-> "commit"]
               /\ Len(held) >= before + Len(translated)
               /\ SubSeq(held, before + 1, before + Len(translated)) = translated
               /\ hunk.lines = {} => Len(translated) = 0
               /\ at[1] <= Len(r.worktreeChanges) =>
                     Len(held) = Len(HeadersUpTo(r, at[1], Len(r.items[at[1]].hunks)))

\* A commit request whose entry has the two headers of two separate lines of
\* a hunk.
C13_Witness ==
    \E a \in DOMAIN att : \E i \in DOMAIN att[a].worktreeChanges :
        /\ att[a].items[i].type = "partial"
        /\ Len(att[a].items[i].hunks) = 1
        /\ att[a].items[i].hunks[1].type = "partial"
        /\ Cardinality(att[a].items[i].hunks[1].lines) = 2
        /\ Len(att[a].worktreeChanges[i].hunkHeaders) = 2
        /\ CallsOf(att[a], "createCommit") # {}

C15_ExactFirstMatch ==
    \A a \in DOMAIN att : \A k \in DOMAIN att[a].replies :
        LET reply == att[a].replies[k]
            r == att[a]
        IN reply.op = "fetchDiff" =>
            /\ reply.outcome = "no-match" =>
                  /\ TranslationsAt(r, reply.at) = {}
                  /\ r.pc = "failed"
                  /\ ShownIn(notes, "Hunk not found while commiting")
                  /\ CallsOf(r, "createCommit") = {}
            /\ reply.outcome \in {"match", "translator-fails"} =>
                  /\ Cardinality(TranslationsAt(r, reply.at)) = 1
                  /\ \A c \in TranslationsAt(r, reply.at) :
                        /\ r.calls[c].arg.diff = reply.data[1]
                        /\ r.calls[c].arg.diff.header =
                              HunkCoords(r.items[reply.at[1]].hunks[reply.at[2]])

\* A run failed on a patch whose hunk had moved in one coordinate.
C15_Witness ==
    \E a \in DOMAIN att :
        /\ att[a].pc = "failed"
        /\ att[a].thrown = "Hunk not found while commiting"
        /\ LastReply(att[a]).outcome = "no-match"
        /\ LastReply(att[a]).data # <<>>
        /\ LastReply(att[a]).data[1].header.newLines =
              att[a].items[att[a].i].hunks[att[a].j].newLines + 1

\* C16: a run given no change by fetchChange has failed with 'Failed to fetch
\* change' and has not called fetchDiff for the hunk; a run given no diff by
\* fetchDiff has failed with 'Failed to fetch diff'; a run given a diff that
\* is not a patch has failed with the caller's 'Hunk not found while
\* commiting', not with an error of the lookup; and every fetchDiff call
\* follows a fetchChange call for the path of the same hunk's file and
\* carries the change that call was answered with.
C16_LookupOutcomes ==
    \A a \in DOMAIN att :
        LET r == att[a]
            calls == BackendCalls(r)
        IN /\ \A k \in DOMAIN r.replies :
                 /\ r.replies[k].outcome = "no-change" =>
                       /\ r.pc = "failed" /\ r.thrown = "Failed to fetch change"
                       /\ ShownIn(notes, "Failed to fetch change")
                       /\ \A c \in CallsOf(r, "fetchDiff") :
                             r.calls[c].at # r.replies[k].at
                 /\ r.replies[k].outcome = "no-diff" =>
                       /\ r.pc = "failed" /\ r.thrown = "Failed to fetch diff"
                       /\ ShownIn(notes, "Failed to fetch diff")
                 /\ r.replies[k].outcome = "not-patch" =>
                       /\ r.pc = "failed"
                       /\ r.thrown = "Hunk not found while commiting"
                       /\ ShownIn(notes, "Hunk not found while commiting")
           /\ \A k \in DOMAIN calls :
                 calls[k].op = "fetchDiff" =>
                    /\ k > 1
                    /\ calls[k - 1].op = "fetchChange"
                    /\ calls[k - 1].at = calls[k].at
                    /\ calls[k - 1].arg = r.items[calls[k].at[1]].path
                    /\ r.replies[k - 1].outcome = "ok"
                    /\ r.replies[k - 1].data = <<calls[k].arg>>
                    /\ calls[k].arg.path = calls[k - 1].arg

\* A run failed on a diff that is not a patch, for a hunk of its second
\* file.
C16_Witness ==
    \E a \in DOMAIN att :
        /\ att[a].pc = "failed"
        /\ Len(att[a].replies) > 0
        /\ LastReply(att[a]).outcome = "not-patch"
        /\ LastReply(att[a]).at[1] = 2
        /\ att[a].thrown = "Hunk not found while commiting"

\* C17: an entry with no hunk headers (the whole file) is emitted only for a
\* `full` file: the entry a run emits for a `partial` file, in its list and
\* in its commit request, always has a hunk header.
C17_PartialNeverWholeFile ==
    \A a \in DOMAIN att :
        /\ \A k \in DOMAIN att[a].worktreeChanges :
              att[a].worktreeChanges[k].hunkHeaders = <<>> => att[a].items[k].type = "full"
        /\ CallsOf(att[a], "createCommit") # {} =>
              \A k \in DOMAIN RequestOf(att[a]).worktreeChanges :
                  RequestOf(att[a]).worktreeChanges[k].hunkHeaders = <<>>
                      => att[a].items[k].type = "full"

\* C18: no run starts (leaves idle for its first backend call) while another
\* run is suspended at createStack, fetchChange, fetchDiff or createCommit.
C18_AttemptsDoNotOverlap ==
    [][\A a \in DOMAIN att :
          (att[a].pc = "idle" /\ att'[a].pc \in InFlight) =>
              \A b \in DOMAIN att \ {a} : att[b].pc \notin InFlight]_vars

\* C19: every step of a run other than the one in which its commit call
\* returns successfully (a start, an answer it goes on from, a failure at
\* stack creation, at the target guards, at a lookup, at the translator or at
\* the commit call) leaves the change selection, the stacks' selections, the
\* saved commit title and description and the drawer page unchanged.
C19_FailureLeavesState ==
    [][\A a \in DOMAIN att :
          (att'[a] # att[a]
             /\ ~(att[a].pc = "createCommit" /\ Answered(a, "createCommit", "ok")))
          => /\ att'[a].pc # "done"
             /\ UNCHANGED <<changeSelection, stackSel, commitTitle, commitDescription,
                            drawerPage>>]_vars

\* A run failed at the commit call after a lookup, and the selection, the
\* saved message and the drawer are as they were.
C19_Witness ==
    \E a \in DOMAIN att :
        /\ att[a].pc = "failed"
        /\ att[a].thrown = "createCommit failed"
        /\ CallsOf(att[a], "fetchDiff") # {}
        /\ changeSelection = att[a].items
        /\ Len(changeSelection) > 0
        /\ commitTitle = "t" /\ commitDescription = "d"
        /\ drawerPage # None
        /\ stackSel[att[a].finalStackId] = att[a].seen.selection

\* C20: the branch name and the parent commit id of a commit request for an
\* explicit stack are those of one state of the stack's selection: the one
\* the run started with, or the one held when the request is issued.
C20_BranchAndParentAgree ==
    [][\A a \in DOMAIN att :
          (/\ ~Falsy(stackId)
           /\ CallsOf(att[a], "createCommit") = {}
           /\ CallsOf(att'[a], "createCommit") # {}) =>
              \E sel \in {att'[a].seen.selection, selection} :
                  /\ RequestOf(att'[a]).stackBranchName =
                        OrElse(sel.branchName, topBranchName)
                  /\ RequestOf(att'[a]).parentId = sel.commitId]_vars

====
